---------------------------- MODULE Spec2Model ----------------------------
(***************************************************************************)
(* A model of crawl_school_letters (family_letter_crawler.py): one call    *)
(* that fetches a listing page, locates the notice table with four ordered *)
(* strategies, extracts one record per eligible row and returns an         *)
(* envelope {letters, meta}.                                               *)
(*                                                                         *)
(* Text is a sequence of one-character strings, so that prefix tests,      *)
(* regular-expression searches, replacement and URL resolution are         *)
(* computed on the characters as the code computes them.  The two Korean   *)
(* notice markers are written in romanised ASCII (gongji, tonghapgongji).  *)
(***************************************************************************)
EXTENDS Integers, Sequences, FiniteSets, TLC

VARIABLES
  pc,          \* where the call stands
  url,         \* the argument url
  site_name,   \* the site label after lines 43-49
  gets,        \* the number of requests.get calls issued
  fetchError,  \* the exception the fetch step raised, "" for none
  response,    \* the document of the response
  soup,        \* the parse tree
  tried,       \* the location strategies run so far, in order
  tbody,       \* the located table body, 0 for None
  rows,        \* tbody.find_all('tr')
  idx,         \* the position of the row loop
  letters,     \* the records appended so far
  steps,       \* the steps that have run
  result,      \* the returned envelope
  escaped      \* the exception that left the call, "" for none

vars == <<pc, url, site_name, gets, fetchError, response, soup, tried, tbody,
          rows, idx, letters, steps, result, escaped>>

\* ------------------------------------------------------------------ bounds
\* the longest table body a fetched document carries
MaxRows == 2

\* ------------------------------------------------------------ text helpers
None == <<>>

Digits == {"0","1","2","3","4","5","6","7","8","9"}

Letters == {"a","b","c","d","e","f","g","h","i","j","k","l","m",
            "n","o","p","q","r","s","t","u","v","w","x","y","z"}

Quotes == {"'", "\""}

Min(S) == CHOOSE m \in S : \A n \in S : m <= n

Max(S) == CHOOSE m \in S : \A n \in S : m >= n

\* str.startswith
StartsWith(s, p) == Len(s) >= Len(p) /\ SubSeq(s, 1, Len(p)) = p

\* the substring test `p in s`
Contains(s, p) ==
  \E i \in 1..(Len(s) - Len(p) + 1) : SubSeq(s, i, i + Len(p) - 1) = p

\* str.replace for one character
Replace(s, a, b) == [i \in 1..Len(s) |-> IF s[i] = a THEN b ELSE s[i]]

\* positions of character c in s
Positions(s, c) == {i \in 1..Len(s) : s[i] = c}

\* the pattern \d{4}\.\d{2}\.\d{2} matched at position i of s
DateAt(s, i) ==
  /\ i >= 1
  /\ i + 9 <= Len(s)
  /\ \A k \in {0,1,2,3,5,6,8,9} : s[i + k] \in Digits
  /\ s[i + 4] = "."
  /\ s[i + 7] = "."

\* re.search(r'(\d{4}\.\d{2}\.\d{2})', s): group 1 of the leftmost match,
\* None when there is no match
DateSearch(s) ==
  LET hits == {i \in 1..Len(s) : DateAt(s, i)}
  IN  IF hits = {} THEN None ELSE SubSeq(s, Min(hits), Min(hits) + 9)

\* re.match(r'\d{4}\.\d{2}\.\d{2}', s)
DateMatch(s) == DateAt(s, 1)

\* the closing quote of ['"](\d+)['"] opened at position i of s (0: no match)
QuoteEnd(s, i) ==
  LET ends == {j \in (i + 2)..Len(s) :
                 /\ s[j] \in Quotes
                 /\ \A k \in (i + 1)..(j - 1) : s[k] \in Digits}
  IN  IF i \in 1..Len(s) /\ s[i] \in Quotes /\ ends # {} THEN Min(ends) ELSE 0

\* re.search(r"['\"](\d+)['\"]", s): group 1 of the leftmost match, or None
QuotedDigits(s) ==
  LET hits == {i \in 1..Len(s) : QuoteEnd(s, i) # 0}
  IN  IF hits = {} THEN None
      ELSE SubSeq(s, Min(hits) + 1, QuoteEnd(s, Min(hits)) - 1)

\* the text of s from position i on
From(s, i) == SubSeq(s, i, Len(s))

\* the text of s in front of the first character of the set stop, from i on
Upto(s, i, stop) ==
  LET cut == {j \in i..Len(s) : s[j] \in stop}
  IN  IF cut = {} THEN From(s, i) ELSE SubSeq(s, i, Min(cut) - 1)

\* ----------------------------------------------------------- urllib.parse
SchemeChars == Letters \cup Digits \cup {"+", "-", "."}

\* schemes of urllib.parse.uses_relative that the inputs can carry
UsesRelative == {<<"h","t","t","p">>, <<"h","t","t","p","s">>, <<"f","t","p">>, <<"f","i","l","e">>}

\* urlsplit: the scheme of u, None when u has none
SchemeOf(u) ==
  LET colons == Positions(u, ":")
  IN  IF /\ colons # {}
         /\ Min(colons) > 1
         /\ u[1] \in Letters
         /\ \A k \in 1..(Min(colons) - 1) : u[k] \in SchemeChars
      THEN SubSeq(u, 1, Min(colons) - 1)
      ELSE None

\* urlsplit: what follows "scheme:"
AfterScheme(u) ==
  IF SchemeOf(u) = None THEN u ELSE From(u, Len(SchemeOf(u)) + 2)

\* urlsplit: the network location of u, None when u has none
NetlocOf(u) ==
  IF StartsWith(AfterScheme(u), <<"/","/">>)
  THEN Upto(AfterScheme(u), 3, {"/", "?", "#"})
  ELSE None

\* urlsplit: the path of u
PathOf(u) ==
  LET rest == AfterScheme(u)
      body == IF StartsWith(rest, <<"/","/">>)
              THEN From(rest, 3 + Len(NetlocOf(u)))
              ELSE rest
  IN  Upto(body, 1, {"?", "#"})

\* scheme://netloc of a base URL
Origin(base) == SchemeOf(base) \o <<":","/","/">> \o NetlocOf(base)

\* the base path without its last segment, "/" for an empty base path
BaseDir(base) ==
  LET bpath  == PathOf(base)
      slashes == Positions(bpath, "/")
  IN  IF slashes = {} THEN <<"/">> ELSE SubSeq(bpath, 1, Max(slashes))

\* urllib.parse.urljoin(base, u) for links without dot segments, parameters
\* or fragments
Urljoin(base, u) ==
  IF u = None THEN base
  ELSE IF SchemeOf(u) # None /\ SchemeOf(u) # SchemeOf(base) THEN u
  ELSE IF SchemeOf(base) \notin UsesRelative THEN u
  ELSE IF NetlocOf(u) # None THEN SchemeOf(base) \o <<":">> \o AfterScheme(u)
  ELSE IF PathOf(u) = None
       THEN Origin(base) \o PathOf(base) \o AfterScheme(u)
  ELSE IF StartsWith(AfterScheme(u), <<"/">>)
       THEN Origin(base) \o AfterScheme(u)
  ELSE Origin(base) \o BaseDir(base) \o AfterScheme(u)

\* ------------------------------------------------------ site-name (43-49)
\* where "https?://" matched at position i of u ends (0: no match at i)
HttpPrefixEnd(u, i) ==
  LET p == IF StartsWith(From(u, i + 4), <<"s">>) THEN i + 5 ELSE i + 4
  IN  IF StartsWith(From(u, i), <<"h","t","t","p">>) /\ StartsWith(From(u, p), <<":","/","/">>)
      THEN p + 3 ELSE 0

\* where group 1 of https?://(?:www\.)?([^/]+) starts for a match at i (0: none)
HostStart(u, i) ==
  LET h == HttpPrefixEnd(u, i)
  IN  IF h = 0 THEN 0
      ELSE IF /\ StartsWith(From(u, h), <<"w","w","w",".">>)
              /\ h + 4 <= Len(u)
              /\ u[h + 4] # "/"
           THEN h + 4
      ELSE IF h <= Len(u) /\ u[h] # "/" THEN h
      ELSE 0

\* re.search(r'https?://(?:www\.)?([^/]+)', u).group(1), None without a match
HostSearch(u) ==
  LET hits == {i \in 1..Len(u) : HostStart(u, i) # 0}
  IN  IF hits = {} THEN None ELSE Upto(u, HostStart(u, Min(hits)), {"/"})

UnknownSite == <<"u","n","k","n","o","w","n","_","s","i","t","e">>

\* lines 43-49: the site label of a call
ResolveSiteName(u, given) ==
  IF given # None THEN given
  ELSE IF HostSearch(u) # None THEN HostSearch(u)
  ELSE UnknownSite

\* ------------------------------------------------- the parse tree (bs4)
\* A document is its elements down to the table bodies, in document order,
\* each with the index of its parent (0: the document), and the rows of the
\* bodies: body "A" carries the document's own rows, "B" and "H" fixed rows.
El(tag, id, cls, parent, body) ==
  [tag |-> tag, id |-> id, cls |-> cls, parent |-> parent, body |-> body]

RECURSIVE Ancestors(_, _)
Ancestors(nodes, n) ==
  IF n = 0 \/ nodes[n].parent = 0 THEN {}
  ELSE {nodes[n].parent} \cup Ancestors(nodes, nodes[n].parent)

\* the descendants of element a (0: of the whole document)
Descendants(nodes, a) ==
  {n \in 1..Len(nodes) : a = 0 \/ a \in Ancestors(nodes, n)}

\* Tag.find(tag, class_=cls) below element a: the first match in document
\* order, 0 (None) without a match or when a is None
Find(nodes, a, tag, cls) ==
  LET hits == {n \in Descendants(nodes, a) :
                 /\ nodes[n].tag = tag
                 /\ cls = "" \/ nodes[n].cls = cls}
  IN  IF hits = {} THEN 0 ELSE Min(hits)

\* find below an element that may be None: None stays None (the nested ifs
\* of lines 89-96 and 101-104)
FindIn(nodes, a, tag, cls) == IF a = 0 THEN 0 ELSE Find(nodes, a, tag, cls)

\* soup.find(id=...)
FindId(nodes, id) ==
  LET hits == {n \in 1..Len(nodes) : nodes[n].id = id}
  IN  IF hits = {} THEN 0 ELSE Min(hits)

\* element n is a child of an element that satisfies the test
ParentOf(nodes, n) == nodes[n].parent

\* soup.select_one('#subContent > div > div.BD_list > table > tbody')
SelectOne(nodes) ==
  LET hits ==
        {n \in 1..Len(nodes) :
           /\ nodes[n].tag = "tbody"
           /\ ParentOf(nodes, n) # 0
           /\ LET t == ParentOf(nodes, n) IN
              /\ nodes[t].tag = "table"
              /\ ParentOf(nodes, t) # 0
              /\ LET b == ParentOf(nodes, t) IN
                 /\ nodes[b].tag = "div" /\ nodes[b].cls = "BD_list"
                 /\ ParentOf(nodes, b) # 0
                 /\ LET d == ParentOf(nodes, b) IN
                    /\ nodes[d].tag = "div"
                    /\ ParentOf(nodes, d) # 0
                    /\ nodes[ParentOf(nodes, d)].id = "subContent"}
  IN  IF hits = {} THEN 0 ELSE Min(hits)

\* ------------------------------------------------------- rows and cells
\* A table row: whether it holds a th, its td cells in order, and the step of
\* its processing that raises ("none": no step does).  A cell: its class,
\* its text (get_text(strip=True)), its first anchor, whether it holds an img.
NoAnchor == [present |-> FALSE, text |-> None, href |-> None, onclick |-> None]

Anchor(text, href, onclick) ==
  [present |-> TRUE, text |-> text, href |-> href, onclick |-> onclick]

Td(text) == [cls |-> "", text |-> text, a |-> NoAnchor, img |-> FALSE]

TdImg(text) == [cls |-> "", text |-> text, a |-> NoAnchor, img |-> TRUE]

TdA(cls, text, href, onclick) ==
  [cls |-> cls, text |-> text, a |-> Anchor(text, href, onclick), img |-> FALSE]

Tr(cells) == [th |-> FALSE, cells |-> cells, fault |-> "none"]

TrFault(cells, step) == [th |-> FALSE, cells |-> cells, fault |-> step]

\* the two notice markers of line 157, romanised
Gongji == <<"g","o","n","g","j","i">>

TonghapGongji == <<"t","o","n","g","h","a","p","g","o","n","g","j","i">>

JavascriptPrefix == <<"j","a","v","a","s","c","r","i","p","t",":">>

HttpPrefix == <<"h","t","t","p">>

\* line 177: the detail URL synthesised from the content identifier
DetailLink(ntt_sn) ==
  <<"/","o","c","h","e","o","n","h","s","/","n","a","/","n","t","t","/","s","e","l","e","c","t","N","t","t","V","i","e","w",".","d","o","?","m","i","=","1","5","9","1","2","5","&","b","b","s","I","d","=","7","6","5","5","6","&","n","t","t","S","n","=">> \o ntt_sn

\* the rows a document can carry
RowPlain ==
  Tr(<<Td(<<"1">>), TdA("ta_l", <<"N","o","t","i","c","e"," ","A">>, <<"/","v","i","e","w","?","i","d","=","9">>, None),
       Td(<<"a","u","t","h","o","r">>), Td(<<"2","0","2","4",".","0","1",".","1","0">>)>>)

RowHeader == [th |-> TRUE, cells |-> <<>>, fault |-> "none"]

RowShort ==
  Tr(<<Td(<<"2">>), TdA("ta_l", <<"B">>, <<"/","v","i","e","w","?","i","d","=","2">>, None), Td(<<"2","0","2","4",".","0","1",".","1","1">>)>>)

RowPinned ==
  Tr(<<Td(Gongji), TdA("ta_l", <<"P">>, <<"/","v","i","e","w","?","i","d","=","3">>, None),
       Td(<<"a","d","m">>), Td(<<"2","0","2","4",".","0","1",".","1","2">>)>>)

RowPinned2 ==
  Tr(<<Td(TonghapGongji), TdA("", <<"Q">>, <<"v","i","e","w","?","i","d","=","4">>, None),
       Td(<<"a","d","m">>), Td(<<"2","0","2","4",".","0","1",".","1","3">>)>>)

RowScript ==
  Tr(<<Td(<<"5">>), TdA("ta_l", <<"S">>, <<"j","a","v","a","s","c","r","i","p","t",":","v","o","i","d","(","0",")">>, <<"f","n","V","i","e","w","(","'","1","2","3","4","5","'",")">>),
       TdImg(<<"2","0","2","3",".","1","2",".","3","1">>), Td(<<"r","e","g"," ","2","0","2","4",".","0","3",".","1","5">>)>>)

RowScriptNoOnclick ==
  Tr(<<Td(<<"6">>), TdA("ta_l", <<"T">>, <<"j","a","v","a","s","c","r","i","p","t",":","v","o","i","d","(","0",")">>, None),
       Td(<<"k","i","m">>), Td(<<"2","0","2","4",".","0","3",".","1","6">>)>>)

RowScriptNoToken ==
  Tr(<<Td(<<"7">>), TdA("ta_l", <<"U">>, <<"j","a","v","a","s","c","r","i","p","t",":",";">>, <<"f","n","V","i","e","w","(","t","h","i","s",")">>),
       Td(<<"k","i","m">>), Td(<<"2","0","2","4",".","0","3",".","1","7">>)>>)

RowScriptFallback ==
  Tr(<<Td(<<"8">>), TdA("", <<"V">>, <<"j","a","v","a","s","c","r","i","p","t",":","v","o","i","d","(","0",")">>, <<"f","n","V","i","e","w","(","'","6","7","8","'",")">>),
       Td(<<"k","i","m">>), Td(<<"2","0","2","4",".","0","3",".","1","8">>)>>)

RowHttpRel ==
  Tr(<<Td(<<"9">>), TdA("ta_l", <<"W">>, <<"h","t","t","p","d","o","c","s","/","v",".","d","o">>, None),
       Td(<<"k","i","m">>), Td(<<"-">>)>>)

RowAbs ==
  Tr(<<Td(<<"1","0">>), TdA("", <<"X">>, <<"h","t","t","p","s",":","/","/","o",".","k","r","/","v">>, None),
       Td(<<"2","0","2","4",".","0","2",".","0","1"," ","n","e","w">>), Td(<<"-">>), Td(<<"2","0","2","4",".","0","2",".","0","3">>)>>)

RowNoAnchor ==
  Tr(<<Td(<<"1","1">>), Td(<<"Y">>), Td(<<"l","e","e">>), Td(<<"2","4",".","0","2",".","0","4">>)>>)

RowRelFallback ==
  Tr(<<Td(<<"1","2">>), TdA("", <<"Z">>, <<"v",".","d","o","?","i","d","=","1","2">>, None),
       Td(<<"l","e","e">>), Td(<<"x","2","0","2","4",".","0","2",".","0","5","5">>)>>)

RowFaultTh == TrFault(RowPlain.cells, "th")

RowFaultCells == TrFault(RowPlain.cells, "cells")

RowFaultDate == TrFault(RowPlain.cells, "date")

RowKinds ==
  {RowPlain, RowHeader, RowShort, RowPinned, RowPinned2, RowScript,
   RowScriptNoOnclick, RowScriptNoToken, RowScriptFallback, RowHttpRel,
   RowAbs, RowNoAnchor, RowRelFallback, RowFaultTh, RowFaultCells,
   RowFaultDate}

\* the rows of body "B"
DecoyRows ==
  <<Tr(<<Td(<<"9","9">>), TdA("ta_l", <<"D">>, <<"/","v","i","e","w","?","i","d","=","9","9">>, None),
         Td(<<"a","d","m">>), Td(<<"2","0","2","0",".","0","1",".","0","1">>)>>)>>

\* the rows of body "H": a heading row alone
HeadingRows == <<RowHeader>>

\* sequences over S of length at most n
RECURSIVE SeqsUpTo(_, _)
SeqsUpTo(S, n) ==
  IF n = 0 THEN {<<>>}
  ELSE LET shorter == SeqsUpTo(S, n - 1)
       IN  shorter \cup {Append(q, x) : q \in shorter, x \in S}

Bodies == SeqsUpTo(RowKinds, MaxRows)

\* the located hierarchy of the site template
DocCanonical ==
  <<El("div", "subContent", "", 0, ""), El("div", "", "", 1, ""),
    El("div", "", "BD_list", 2, ""), El("table", "", "", 3, ""),
    El("tbody", "", "", 4, "A")>>

\* the list block sits one level too deep for the child selector; a plain
\* table precedes the container
DocStepwise ==
  <<El("table", "", "", 0, ""), El("tbody", "", "", 1, "B"),
    El("div", "subContent", "", 0, ""), El("div", "", "", 3, ""),
    El("section", "", "", 4, ""), El("div", "", "BD_list", 5, ""),
    El("table", "", "", 6, ""), El("tbody", "", "", 7, "A")>>

\* a list block outside any container, after a plain table
DocClassOnly ==
  <<El("table", "", "", 0, ""), El("tbody", "", "", 1, "B"),
    El("div", "", "BD_list", 0, ""), El("table", "", "", 3, ""),
    El("tbody", "", "", 4, "A")>>

\* the hierarchy hangs off the container's second div; another list block
\* comes first in the document
DocSecondDiv ==
  <<El("div", "", "BD_list", 0, ""), El("table", "", "", 1, ""),
    El("tbody", "", "", 2, "B"),
    El("div", "subContent", "", 0, ""), El("div", "", "", 4, ""),
    El("div", "", "", 4, ""), El("div", "", "BD_list", 6, ""),
    El("table", "", "", 7, ""), El("tbody", "", "", 8, "A")>>

\* the container's first div is empty and the list block is no child of a div
DocTrapped ==
  <<El("div", "subContent", "", 0, ""), El("div", "", "", 1, ""),
    El("section", "", "", 1, ""), El("div", "", "BD_list", 3, ""),
    El("table", "", "", 4, ""), El("tbody", "", "", 5, "A")>>

\* two plain tables
DocPlain ==
  <<El("table", "", "", 0, ""), El("tbody", "", "", 1, "A"),
    El("table", "", "", 0, ""), El("tbody", "", "", 3, "B")>>

\* one plain table
DocPlainOnly == <<El("table", "", "", 0, ""), El("tbody", "", "", 1, "A")>>

\* the first list block holds no table
DocSecondList ==
  <<El("div", "", "BD_list", 0, ""), El("div", "", "BD_list", 0, ""),
    El("table", "", "", 2, ""), El("tbody", "", "", 3, "A")>>

\* one plain table with two bodies, the first one holding the heading row
DocTwoBodies ==
  <<El("table", "", "", 0, ""), El("tbody", "", "", 1, "H"),
    El("tbody", "", "", 1, "A")>>

\* the hierarchy without a table body
DocNoBody ==
  <<El("div", "subContent", "", 0, ""), El("div", "", "", 1, ""),
    El("div", "", "BD_list", 2, ""), El("table", "", "", 3, "")>>

Skeletons ==
  {DocCanonical, DocStepwise, DocClassOnly, DocSecondDiv, DocTrapped,
   DocPlain, DocPlainOnly, DocSecondList, DocTwoBodies, DocNoBody}

\* the documents a fetch can return
Documents == [nodes : Skeletons, rows : Bodies]

\* tbody.find_all('tr')
RowsOf(doc, n) ==
  CASE doc.nodes[n].body = "A" -> doc.rows
    [] doc.nodes[n].body = "B" -> DecoyRows
    [] OTHER                   -> HeadingRows

\* ------------------------------------------- table location (lines 81-120)
\* line 84
Strategy1(doc) == SelectOne(doc.nodes)

\* lines 88-96
Strategy2(doc) ==
  LET sub_content == FindId(doc.nodes, "subContent")
      div         == FindIn(doc.nodes, sub_content, "div", "")
      bd_list     == FindIn(doc.nodes, div, "div", "BD_list")
      table       == FindIn(doc.nodes, bd_list, "table", "")
  IN  FindIn(doc.nodes, table, "tbody", "")

\* lines 100-104
Strategy3(doc) ==
  LET bd_list == Find(doc.nodes, 0, "div", "BD_list")
      table   == FindIn(doc.nodes, bd_list, "table", "")
  IN  FindIn(doc.nodes, table, "tbody", "")

\* lines 111-118: the test that ends the loop over the tables
Accepts(doc, table) ==
  LET body == Find(doc.nodes, table, "tbody", "")
  IN  /\ body # 0
      /\ Len(RowsOf(doc, body)) > 0
      /\ Len(RowsOf(doc, body)[1].cells) > 0

\* lines 108-120 without the else of the for: the last table's body is kept
Strategy4NoElse(doc) ==
  LET tables   == {n \in 1..Len(doc.nodes) : doc.nodes[n].tag = "table"}
      accepted == {t \in tables : Accepts(doc, t)}
  IN  IF accepted # {} THEN Find(doc.nodes, Min(accepted), "tbody", "")
      ELSE IF tables # {} THEN Find(doc.nodes, Max(tables), "tbody", "")
      ELSE 0

\* lines 108-120: the body of the first accepted table; the else of the for
\* resets tbody when no table is accepted
Strategy4(doc) ==
  LET tables   == {n \in 1..Len(doc.nodes) : doc.nodes[n].tag = "table"}
      accepted == {t \in tables : Accepts(doc, t)}
  IN  IF accepted = {} THEN 0
      ELSE Find(doc.nodes, Min(accepted), "tbody", "")

\* the strategy tried as the k-th
Strategy(k, doc) ==
  CASE k = 1 -> Strategy1(doc)
    [] k = 2 -> Strategy2(doc)
    [] k = 3 -> Strategy3(doc)
    [] k = 4 -> Strategy4(doc)

\* --------------------------------------- row extraction (lines 153-248)
\* line 161: row.find('td', class_='ta_l'), 0 for None
TitleCell(row) ==
  LET hits == {i \in 1..Len(row.cells) : row.cells[i].cls = "ta_l"}
  IN  IF hits = {} THEN 0 ELSE Min(hits)

\* lines 169-179: the link of a ta_l anchor after the script-link handling
ScriptLink(a) ==
  IF StartsWith(a.href, JavascriptPrefix) /\ a.onclick # None
  THEN IF QuotedDigits(a.onclick) # None
       THEN DetailLink(QuotedDigits(a.onclick))
       ELSE None
  ELSE a.href

\* lines 181-182 and 193-194
Absolutize(base, link) ==
  IF link # None /\ ~StartsWith(link, HttpPrefix)
  THEN Urljoin(base, link)
  ELSE link

\* lines 161-197: the title and the link of a row
TitleAndLink(base, row) ==
  IF TitleCell(row) # 0
  THEN LET cell == row.cells[TitleCell(row)]
       IN  IF cell.a.present
           THEN [title |-> cell.a.text,
                 link  |-> Absolutize(base, ScriptLink(cell.a))]
           ELSE [title |-> cell.text, link |-> None]
  ELSE LET cell == row.cells[2]
       IN  IF cell.a.present
           THEN [title |-> cell.a.text, link |-> Absolutize(base, cell.a.href)]
           ELSE [title |-> cell.text, link |-> None]

\* lines 211-219: the first token of the first cell that holds one
ScanDate(cells) ==
  LET hits == {i \in 1..Len(cells) : DateSearch(cells[i].text) # None}
  IN  IF hits = {} THEN None ELSE DateSearch(cells[Min(hits)].text)

\* lines 211-219 alone: the fourth cell is not looked at first
DateTextScanOnly(cells) == ScanDate(cells)

\* lines 200-219
DateText(cells) ==
  IF Len(cells) > 3 /\ DateSearch(cells[4].text) # None
  THEN DateSearch(cells[4].text)
  ELSE ScanDate(cells)

\* lines 232-238
FormatDate(date_text) ==
  IF DateMatch(date_text) THEN Replace(date_text, ".", "-") ELSE date_text

\* lines 225-229
HasAttachment(cells) == \E i \in 1..Len(cells) : cells[i].img

\* lines 240-248
LetterData(base, row) ==
  [number         |-> row.cells[1].text,
   title          |-> TitleAndLink(base, row).title,
   author         |-> None,
   date           |-> FormatDate(DateText(row.cells)),
   views          |-> <<"0">>,
   url            |-> TitleAndLink(base, row).link,
   has_attachment |-> HasAttachment(row.cells)]

\* the steps of a row inside the try of line 151
TrySteps == {"number", "title", "date", "attach"}

\* lines 143-149: the row is passed over before the try
SkippedEarly(row) == row.th \/ Len(row.cells) < 4

\* line 157 with the first marker alone
IsPinnedOnlyGongji(row) == row.cells[1].text = Gongji

\* line 157
IsPinned(row) ==
  row.cells[1].text = Gongji \/ row.cells[1].text = TonghapGongji

\* the row raises inside the try: the number step precedes the marker test,
\* the other steps follow it
RaisesInTry(row) ==
  \/ row.fault = "number"
  \/ row.fault \in TrySteps /\ ~IsPinned(row)

\* lines 141-254, one iteration: the letters after the row
AfterRow(base, acc, row) ==
  IF SkippedEarly(row) THEN acc
  ELSE IF RaisesInTry(row) THEN acc
  ELSE IF IsPinned(row) THEN acc
  ELSE Append(acc, LetterData(base, row))

\* lines 143 and 147 run outside the try of line 151: what they raise reaches
\* the handler of line 258
RaisesOutsideTry(row) ==
  \/ row.fault = "th"
  \/ row.fault = "cells" /\ ~row.th

\* ------------------------------------------------------------ envelopes
\* datetime.now().strftime("%Y-%m-%d") of the day of the call
Today == <<"2","0","2","6","-","0","3","-","0","2">>

\* str(e) of the exceptions of the fetch and parse steps
Message(e) ==
  CASE e = "MissingSchema"   -> "Invalid URL: No scheme supplied"
    [] e = "ConnectionError" -> "Connection refused"
    [] e = "HTTPError"       -> "404 Client Error: Not Found"
    [] e = "Timeout"         -> "Read timed out. (read timeout=10)"
    [] OTHER                 -> e

\* the subclasses of requests.RequestException the fetch step raises
RequestExceptions == {"MissingSchema", "ConnectionError", "HTTPError", "Timeout"}

\* an exception of the fetch step outside that hierarchy: the OSError that
\* requests raises, before it connects, when the CA bundle of an https
\* request is not a readable path
OtherExceptions == {"OSError"}

ParseErrorPrefix == "HTML parse error: "

TableNotFound == "notice table not found"

\* lines 64-73
FetchErrorEnvelope(site, u, e) ==
  [letters |-> <<>>,
   meta |-> [total_count |-> 0, last_updated |-> Today, source |-> site,
             url |-> u, error |-> <<Message(e)>>]]

\* lines 126-135
NotFoundEnvelope(site, u) ==
  [letters |-> <<>>,
   meta |-> [total_count |-> 0, last_updated |-> Today, source |-> site,
             url |-> u, error |-> <<TableNotFound>>]]

\* lines 260-269
ParseErrorEnvelope(site, u, e) ==
  [letters |-> <<>>,
   meta |-> [total_count |-> 0, last_updated |-> Today, source |-> site,
             url |-> u, error |-> <<ParseErrorPrefix, Message(e)>>]]

\* lines 272-280 with the count of the failure envelopes
SuccessEnvelopeZeroCount(site, u, ls) ==
  [letters |-> ls,
   meta |-> [total_count |-> 0, last_updated |-> Today, source |-> site,
             url |-> u]]

\* lines 272-280
SuccessEnvelope(site, u, ls) ==
  [letters |-> ls,
   meta |-> [total_count |-> Len(ls), last_updated |-> Today, source |-> site,
             url |-> u]]

\* ------------------------------------------------------------------ inputs
PageUrl == <<"h","t","t","p","s",":","/","/","w","w","w",".","s",".","k","r","/","a","/","l","i","s","t",".","d","o","?","m","i","=","1">>

PageUrlNoScheme == <<"s",".","k","r","/","l","i","s","t">>

\* the calls: [url, site_name], site_name None when it is left out
Calls ==
  {<<PageUrl, None>>, <<PageUrlNoScheme, None>>, <<PageUrlNoScheme, <<"o","h","s">>>>}

\* what requests.get and raise_for_status can do for a URL: requests rejects
\* a URL without a scheme before any connection is made
FetchOutcomes(u) ==
  IF SchemeOf(u) \in {<<"h","t","t","p">>, <<"h","t","t","p","s">>}
  THEN {"ok"} \cup (RequestExceptions \ {"MissingSchema"})
         \cup (IF SchemeOf(u) = <<"h","t","t","p","s">> THEN OtherExceptions ELSE {})
  ELSE {"MissingSchema"}

NoDocument == [nodes |-> <<>>, rows |-> <<>>]

NoResult == [letters |-> <<>>, meta |-> [total_count |-> 0]]

\* ------------------------------------------------------------ the call
Init ==
  /\ pc = "idle"
  /\ url = None
  /\ site_name = None
  /\ gets = 0
  /\ fetchError = ""
  /\ response = NoDocument
  /\ soup = NoDocument
  /\ tried = <<>>
  /\ tbody = 0
  /\ rows = <<>>
  /\ idx = 1
  /\ letters = <<>>
  /\ steps = {}
  /\ result = NoResult
  /\ escaped = ""

\* lines 32-51: the call is made and the site label resolved
Call ==
  /\ pc = "idle"
  /\ \E c \in Calls :
       /\ url' = c[1]
       /\ site_name' = ResolveSiteName(c[1], c[2])
  /\ pc' = "fetch"
  /\ UNCHANGED <<gets, fetchError, response, soup, tried, tbody, rows, idx,
                 letters, steps, result, escaped>>

\* line 62: the handler of the fetch step takes this exception
CaughtByFetchHandler(e) == e \in RequestExceptions

\* the handler of line 62 without its return: the call goes on to the parse
AfterFetchErrorFallThrough == "parse"

\* lines 64-73: the handler of the fetch step returns, the call is over
AfterFetchError == "done"

\* lines 58-73: the GET; a RequestException returns the error envelope, any
\* other exception leaves the call
Fetch ==
  /\ pc = "fetch"
  /\ gets' = gets + 1
  /\ steps' = steps \cup {"get"}
  /\ \E e \in FetchOutcomes(url) :
       IF e = "ok"
       THEN /\ \E d \in Documents : response' = d
            /\ pc' = "parse"
            /\ UNCHANGED <<fetchError, result, escaped>>
       ELSE IF CaughtByFetchHandler(e)
       THEN /\ fetchError' = e
            /\ result' = FetchErrorEnvelope(site_name, url, e)
            /\ pc' = AfterFetchError
            /\ UNCHANGED <<response, escaped>>
       ELSE /\ fetchError' = e
            /\ escaped' = e
            /\ pc' = "raised"
            /\ UNCHANGED <<response, result>>
  /\ UNCHANGED <<url, site_name, soup, tried, tbody, rows, idx, letters>>

\* line 77: BeautifulSoup(response.text, 'html.parser'), which may reject the
\* markup; the handler of line 258 returns the parse-error envelope
Parse ==
  /\ pc = "parse"
  /\ steps' = steps \cup {"parse"}
  /\ \E ok \in BOOLEAN :
       IF ok
       THEN /\ soup' = response
            /\ pc' = "locate"
            /\ UNCHANGED result
       ELSE /\ result' = ParseErrorEnvelope(site_name, url, "ParserRejectedMarkup")
            /\ pc' = "done"
            /\ UNCHANGED soup
  /\ UNCHANGED <<url, site_name, gets, fetchError, response, tried, tbody,
                 rows, idx, letters, escaped>>

\* the strategy the location step runs next
NextStrategy(done) == Len(done) + 1

\* lines 84-120, one strategy: it runs when the ones before it yielded None;
\* a body found starts the row loop (line 138-139); an exception in the
\* search reaches the handler of line 258
Locate ==
  /\ pc = "locate"
  /\ NextStrategy(tried) <= 4
  /\ steps' = steps \cup {"search"}
  /\ \E ok \in BOOLEAN :
       IF ok
       THEN LET k == NextStrategy(tried) IN
            /\ tried' = Append(tried, k)
            /\ tbody' = Strategy(k, soup)
            /\ IF Strategy(k, soup) # 0
               THEN /\ rows' = RowsOf(soup, Strategy(k, soup))
                    /\ pc' = "rows"
               ELSE /\ pc' = IF k = 4 THEN "notfound" ELSE "locate"
                    /\ UNCHANGED rows
            /\ UNCHANGED result
       ELSE /\ result' = ParseErrorEnvelope(site_name, url, "Exception")
            /\ pc' = "done"
            /\ UNCHANGED <<tried, tbody, rows>>
  /\ UNCHANGED <<url, site_name, gets, fetchError, response, soup, idx,
                 letters, escaped>>

\* lines 122-135: no strategy yielded a body
NotFound ==
  /\ pc = "notfound"
  /\ result' = NotFoundEnvelope(site_name, url)
  /\ pc' = "done"
  /\ UNCHANGED <<url, site_name, gets, fetchError, response, soup, tried,
                 tbody, rows, idx, letters, steps, escaped>>

\* lines 141-254, one iteration of the row loop
RowStep ==
  /\ pc = "rows"
  /\ idx <= Len(rows)
  /\ steps' = steps \cup {"rows"}
  /\ IF RaisesOutsideTry(rows[idx])
     THEN /\ result' = ParseErrorEnvelope(site_name, url, "Exception")
          /\ pc' = "done"
          /\ UNCHANGED <<idx, letters>>
     ELSE /\ letters' = AfterRow(url, letters, rows[idx])
          /\ idx' = idx + 1
          /\ UNCHANGED <<pc, result>>
  /\ UNCHANGED <<url, site_name, gets, fetchError, response, soup, tried,
                 tbody, rows, escaped>>

\* lines 256 and 271-283: the loop is over, the envelope is returned
Finish ==
  /\ pc = "rows"
  /\ idx > Len(rows)
  /\ result' = SuccessEnvelope(site_name, url, letters)
  /\ pc' = "done"
  /\ UNCHANGED <<url, site_name, gets, fetchError, response, soup, tried,
                 tbody, rows, idx, letters, steps, escaped>>

Next == Call \/ Fetch \/ Parse \/ Locate \/ NotFound \/ RowStep \/ Finish

Spec == Init /\ [][Next]_vars

\* ------------------------------------------------------------ properties
Returned == pc = "done"

HasError(env) == "error" \in DOMAIN env.meta

Succeeded == Returned /\ ~HasError(result)

\* a row that yields a record: no th, at least 4 td, no marker in the first
\* cell, no step that raises
Eligible(row) ==
  /\ ~row.th
  /\ Len(row.cells) >= 4
  /\ row.cells[1].text \notin {Gongji, TonghapGongji}
  /\ row.fault = "none"

\* the rows of the located body that yield a record, in source order
EmittedRows == SelectSeq(rows, Eligible)

\* the anchor the title of a row is read from
TitleAnchor(row) ==
  IF \E i \in 1..Len(row.cells) : row.cells[i].cls = "ta_l"
  THEN row.cells[CHOOSE i \in 1..Len(row.cells) :
                   /\ row.cells[i].cls = "ta_l"
                   /\ \A j \in 1..(i - 1) : row.cells[j].cls # "ta_l"].a
  ELSE row.cells[2].a

\* every record of the result is paired with the row it comes from
Paired == Len(result.letters) = Len(EmittedRows)

\* C1: the call never raises: it ends by returning an envelope, and an
\* envelope of a call-level failure has no letters and carries meta.error
C1_NeverRaises ==
  /\ pc # "raised"
  /\ escaped = ""
  /\ Returned /\ HasError(result) => result.letters = <<>>

\* C2: in every returned envelope meta.total_count is the length of letters
C2_TotalCount ==
  Returned => result.meta.total_count = Len(result.letters)

\* a call that succeeded with two records
C2_Witness == Succeeded /\ Len(result.letters) = 2

\* C3: once the fetch succeeded and a strategy yielded a table body, the
\* returned envelope has no meta.error, whatever the rows do
C3_NoErrorOnceLocated ==
  Returned /\ fetchError = "" /\ tbody # 0 => ~HasError(result)

\* C4: a failed GET ends the call at once: one GET, no parse, search or row
\* step, and an envelope with no letters, count 0 and a non-empty error
C4_FetchFailure ==
  fetchError \in RequestExceptions =>
    /\ Returned
    /\ gets = 1
    /\ steps = {"get"}
    /\ result.letters = <<>>
    /\ result.meta.total_count = 0
    /\ HasError(result)
    /\ result.meta.error = <<Message(fetchError)>>
    /\ Message(fetchError) # ""

\* a call whose GET timed out
C4_Witness == fetchError = "Timeout" /\ Returned

\* C5: on success letters holds one record for each row of the located body
\* that has no th, at least 4 td and no marker, and raised nothing, in row
\* order, duplicates kept, with author "" and views "0"
C5_LettersAreEligibleRows ==
  Succeeded =>
    /\ rows = RowsOf(soup, tbody)
    /\ Len(result.letters) = Len(EmittedRows)
    /\ \A i \in 1..Len(result.letters) :
         /\ result.letters[i].number = EmittedRows[i].cells[1].text
         /\ result.letters[i].title \in
              {EmittedRows[i].cells[k].text : k \in 1..Len(EmittedRows[i].cells)}
         /\ result.letters[i].author = None
         /\ result.letters[i].views = <<"0">>

\* a body whose first row is pinned and whose second row is emitted
C5_Witness ==
  /\ Succeeded
  /\ Len(rows) = 2
  /\ rows[1].cells # <<>>
  /\ rows[1].cells[1].text = TonghapGongji
  /\ Len(result.letters) = 1

\* C6: a record whose title anchor has a javascript: href has the synthesised
\* detail URL when the onclick holds a quoted run of digits, and "" otherwise,
\* for the ta_l cell and for the second-cell fallback alike
C6_ScriptLinks ==
  Succeeded /\ Paired =>
    \A i \in 1..Len(result.letters) :
      LET a == TitleAnchor(EmittedRows[i]) IN
      a.present /\ StartsWith(a.href, JavascriptPrefix) =>
        IF QuotedDigits(a.onclick) # None
        THEN /\ result.letters[i].url =
                  Urljoin(url, DetailLink(QuotedDigits(a.onclick)))
             /\ Contains(result.letters[i].url,
                         <<"n","t","t","S","n","=">> \o QuotedDigits(a.onclick))
        ELSE result.letters[i].url = None

\* C7: a record with a non-empty, non-script title link has that link
\* resolved against the page URL when it is relative and unchanged when it
\* is absolute; a url is "" or absolute
C7_LinksResolved ==
  Succeeded /\ Paired =>
    \A i \in 1..Len(result.letters) :
      LET a == TitleAnchor(EmittedRows[i]) IN
      /\ a.present /\ a.href # None /\ ~StartsWith(a.href, JavascriptPrefix) =>
           IF SchemeOf(a.href) = None
           THEN result.letters[i].url = Urljoin(url, a.href)
           ELSE result.letters[i].url = a.href
      /\ result.letters[i].url = None \/ SchemeOf(result.letters[i].url) # None

\* a text holds a YYYY.MM.DD token
HasToken(s) == \E i \in 1..Len(s) : DateAt(s, i)

\* the leftmost YYYY.MM.DD token of a text
FirstToken(s) ==
  LET i == CHOOSE k \in 1..Len(s) :
             DateAt(s, k) /\ \A j \in 1..(k - 1) : ~DateAt(s, j)
  IN  SubSeq(s, i, i + 9)

\* a token with dashes for its dots
Dashed(t) == [i \in 1..Len(t) |-> IF i \in {5, 8} THEN "-" ELSE t[i]]

\* the shape YYYY-MM-DD
IsDateShape(d) ==
  /\ Len(d) = 10
  /\ \A k \in {1,2,3,4,6,7,9,10} : d[k] \in Digits
  /\ d[5] = "-"
  /\ d[8] = "-"

\* the date the claim gives a row
ExpectedDate(cells) ==
  IF HasToken(cells[4].text) THEN Dashed(FirstToken(cells[4].text))
  ELSE IF \E i \in 1..Len(cells) : HasToken(cells[i].text)
  THEN Dashed(FirstToken(
         cells[CHOOSE i \in 1..Len(cells) :
                 /\ HasToken(cells[i].text)
                 /\ \A j \in 1..(i - 1) : ~HasToken(cells[j].text)].text))
  ELSE None

\* C8: the date of a record is the token of the fourth cell when it holds
\* one, else the first token of the cells in order, with dashes for the dots,
\* else ""; it is "" or of the shape YYYY-MM-DD
C8_Date ==
  Succeeded /\ Paired =>
    \A i \in 1..Len(result.letters) :
      /\ result.letters[i].date = ExpectedDate(EmittedRows[i].cells)
      /\ result.letters[i].date = None \/ IsDateShape(result.letters[i].date)

\* a record whose date is the token of the fourth cell although the third
\* cell holds an earlier one
C8_Witness ==
  /\ Succeeded
  /\ Paired
  /\ \E i \in 1..Len(result.letters) :
       /\ HasToken(EmittedRows[i].cells[3].text)
       /\ HasToken(EmittedRows[i].cells[4].text)
       /\ result.letters[i].date = <<"2","0","2","4","-","0","3","-","1","5">>

\* a table body that has a row and whose first row holds a td
IsDataBody(doc, n) ==
  /\ doc.nodes[n].tag = "tbody"
  /\ RowsOf(doc, n) # <<>>
  /\ RowsOf(doc, n)[1].cells # <<>>

\* the first table body in document order that has a row and whose first
\* row holds a td, 0 when there is none
FirstDataBody(doc) ==
  LET good == {n \in 1..Len(doc.nodes) : IsDataBody(doc, n)}
  IN  IF good = {} THEN 0 ELSE Min(good)

\* the first body of a table, 0 when the table has none
FirstBodyOf(doc, t) ==
  LET own == {n \in 1..Len(doc.nodes) :
                doc.nodes[n].tag = "tbody" /\ t \in Ancestors(doc.nodes, n)}
  IN  IF own = {} THEN 0 ELSE Min(own)

\* the first body of the first table in document order whose first body has
\* a row and a td in its first row, 0 when there is no such table
FirstTableDataBody(doc) ==
  LET good == {t \in 1..Len(doc.nodes) :
                 /\ doc.nodes[t].tag = "table"
                 /\ FirstBodyOf(doc, t) # 0
                 /\ IsDataBody(doc, FirstBodyOf(doc, t))}
  IN  IF good = {} THEN 0 ELSE FirstBodyOf(doc, Min(good))

IsNotFoundEnvelope(env) ==
  /\ HasError(env)
  /\ env.meta.error = <<TableNotFound>>
  /\ env.letters = <<>>
  /\ env.meta.total_count = 0

\* the strategies ran in the order 1, 2, 3, 4, the rows come from the body
\* of the lowest-numbered strategy that yields one, and the not-found
\* envelope is returned exactly when all four yield nothing, where y4 is
\* what strategy 4 yields
OrderedLocation(y4) ==
  LET Yield(k) == IF k = 4 THEN y4 ELSE Strategy(k, soup) IN
  /\ \A i \in 1..Len(tried) : tried[i] = i
  /\ tbody # 0 =>
       /\ tbody = Yield(Len(tried))
       /\ \A j \in 1..(Len(tried) - 1) : Yield(j) = 0
       /\ rows = RowsOf(soup, tbody)
  /\ Returned /\ soup # NoDocument =>
       (IsNotFoundEnvelope(result) <=>
          /\ tried = <<1, 2, 3, 4>>
          /\ \A k \in 1..4 : Yield(k) = 0)

\* C9 as stated: the strategies run in the order 1, 2, 3, 4, strategy 4
\* accepting the first table body in document order that has a row and a
\* data cell in its first row; the rows come from the body of the
\* lowest-numbered strategy that yields one, and the not-found envelope is
\* returned exactly when all four yield nothing
C9_Original == OrderedLocation(FirstDataBody(soup))

\* C9, amended: as above, with strategy 4 looking at the first body of each
\* table only: it accepts the first body of the first table in document
\* order whose first body has a row and a data cell in its first row
C9_StrategyOrder == OrderedLocation(FirstTableDataBody(soup))

\* the first plain table is passed over and the body of the second is taken
C9_Witness ==
  /\ Returned
  /\ tried = <<1, 2, 3, 4>>
  /\ tbody # 0
  /\ soup.nodes[tbody].body = "B"

\* a row of the located body raises in one of its steps
SomeRowRaises == \E i \in 1..Len(rows) : rows[i].fault # "none"

\* C10: an exception in any step of one row skips that row alone: the call
\* succeeds and every other eligible row yields its record, in order
C10_RowErrorContained ==
  Returned /\ tbody # 0 /\ SomeRowRaises =>
    /\ ~HasError(result)
    /\ Len(result.letters) = Len(EmittedRows)
    /\ \A i \in 1..Len(result.letters) :
         result.letters[i].number = EmittedRows[i].cells[1].text

=============================================================================
